---- MODULE Spec2Model ----
(***************************************************************************)
(* The advocate search of MattBro/solace: AdvocatesService.searchAdvocates *)
(* with AdvocateRepository (NestJS backend), the HTTP entry points in      *)
(* front of it, and the advocates table the queries run against.           *)
(*                                                                         *)
(* Strings the code inspects character by character (the search term, the  *)
(* names the sort compares) are sequences of one-character strings.        *)
(* An optional value is <<>> when absent (undefined / NULL) and <<v>> when *)
(* present.                                                                *)
(*                                                                         *)
(* Specifications: Spec (one invocation at a time, any entry point),       *)
(* SpecRepeat (a caller sends the same request twice), SpecPagination      *)
(* (calculatePagination alone), SpecConcurrent (two invocations            *)
(* interleaved, with the controller's response cache), SpecFresh (one      *)
(* client calling while records are added), SpecWalk (a caller reading a   *)
(* result page by page), SpecInjection (the tag filter as statement text)  *)
(* and SpecHook (the useAdvocates hook of the frontend).                   *)
(***************************************************************************)
EXTENDS Integers, Sequences, FiniteSets, TLC

\* ------------------------------------------------------------------------
\* Bounds of the model
\* ------------------------------------------------------------------------
MaxRecords == 3
MaxPage == 3
MaxSmallLimit == 2

\* ------------------------------------------------------------------------
\* Program constants
\* ------------------------------------------------------------------------
DEFAULT_PAGE == 1
DEFAULT_LIMIT == 50
MAX_LIMIT == 100

Absent == <<>>
Some(x) == <<x>>
IsPresent(o) == Len(o) > 0
Get(o) == o[1]

Min2(a, b) == IF a < b THEN a ELSE b
Max2(a, b) == IF a > b THEN a ELSE b

\* ------------------------------------------------------------------------
\* Strings
\* ------------------------------------------------------------------------
\* String.prototype.trim: drops leading and trailing white space.
RECURSIVE TrimLeft(_)
TrimLeft(s) == IF s # <<>> /\ Head(s) = " " THEN TrimLeft(Tail(s)) ELSE s

RECURSIVE TrimRight(_)
TrimRight(s) ==
    IF s # <<>> /\ s[Len(s)] = " " THEN TrimRight(SubSeq(s, 1, Len(s) - 1)) ELSE s

Trim(s) == TrimRight(TrimLeft(s))

\* String.prototype.split(sep) for a one-character separator: every
\* occurrence of sep ends a piece, so adjacent separators give empty pieces.
RECURSIVE SplitAcc(_, _, _, _, _)
SplitAcc(s, sep, i, cur, acc) ==
    IF i > Len(s) THEN Append(acc, cur)
    ELSE IF s[i] = sep THEN SplitAcc(s, sep, i + 1, <<>>, Append(acc, cur))
    ELSE SplitAcc(s, sep, i + 1, Append(cur, s[i]), acc)

Split(s, sep) == SplitAcc(s, sep, 1, <<>>, <<>>)

\* Array.prototype.join with the separator ' & '.
RECURSIVE JoinAnd(_)
JoinAnd(parts) ==
    IF parts = <<>> THEN <<>>
    ELSE IF Len(parts) = 1 THEN parts[1]
    ELSE parts[1] \o <<" ", "&", " ">> \o JoinAnd(Tail(parts))

\* String.prototype.localeCompare on lower-case ASCII words: the sign of the
\* lexicographic comparison.
CharOrd(c) == CASE c = "j" -> 1 [] c = "o" -> 2 [] c = "s" -> 3 [] OTHER -> 0

RECURSIVE localeCompare(_, _)
localeCompare(a, b) ==
    IF a = <<>> /\ b = <<>> THEN 0
    ELSE IF a = <<>> THEN -1
    ELSE IF b = <<>> THEN 1
    ELSE IF CharOrd(Head(a)) < CharOrd(Head(b)) THEN -1
    ELSE IF CharOrd(Head(a)) > CharOrd(Head(b)) THEN 1
    ELSE localeCompare(Tail(a), Tail(b))

IsPrefix(p, w) == Len(p) <= Len(w) /\ SubSeq(w, 1, Len(p)) = p

\* ------------------------------------------------------------------------
\* Query builder (AdvocateRepository.searchAdvocates, lines 19-21)
\* ------------------------------------------------------------------------
\* search.trim().split(' ').map((word, index, arr) =>
\*     index === arr.length - 1 ? `${word}:*` : word).join(' & ')
BuildSearchQuery(search) ==
    LET words == Split(Trim(search), " ")
        marked == [i \in 1..Len(words) |->
                      IF i = Len(words) THEN words[i] \o <<":", "*">> ELSE words[i]]
    IN  JoinAnd(marked)

\* ------------------------------------------------------------------------
\* The advocates table (migrate.js, add-fulltext-search.sql)
\* ------------------------------------------------------------------------
\* The row the ingestion path stores under a given id. The ids come from a
\* SERIAL column, so the n-th inserted row has id n; the other columns vary
\* with the id so that names, cities, tenures, tag sets and a NULL payload
\* all occur.
RowOfId(id) ==
    LET k == ((id - 1) % 4) + 1 IN
    [ id                  |-> id,
      first_name          |-> CASE k = 1 -> <<"j">> [] k = 2 -> <<"s">>
                                [] k = 3 -> <<"j">> [] OTHER -> <<"o">>,
      last_name           |-> CASE k = 1 -> <<"s">> [] k = 2 -> <<"j", "o">>
                                [] k = 3 -> <<"o">> [] OTHER -> <<"j">>,
      city                |-> CASE k = 1 -> <<"o">> [] k = 2 -> <<"j">>
                                [] k = 3 -> <<"s">> [] OTHER -> <<"j">>,
      degree              |-> "MD",
      payload             |-> CASE k = 1 -> Some(<<"J">>) [] k = 2 -> Some(<<"O", "S">>)
                                [] k = 3 -> Some(<<"J", "O">>) [] OTHER -> Absent,
      years_of_experience |-> CASE k = 1 -> 5 [] k = 2 -> 3 [] k = 3 -> 5 [] OTHER -> 0,
      phone_number        |-> 5550000 + id ]

\* to_tsvector lower-cases a word; a tag is one upper-case letter here.
LowerCase(t) == CASE t = "J" -> <<"j">> [] t = "O" -> <<"o">> [] t = "S" -> <<"s">>
                  [] OTHER -> <<"x">>

\* ts_rank's default weights {D, C, B, A} = {0.1, 0.2, 0.4, 1.0}, in tenths.
WeightOf(label) == CASE label = "A" -> 10 [] label = "B" -> 4 [] label = "C" -> 2
                     [] OTHER -> 1

\* advocates_search_trigger: the weighted lexemes of a row.
SearchVector(r) ==
    { [word |-> r.first_name, weight |-> "A"],
      [word |-> r.last_name,  weight |-> "A"],
      [word |-> r.city,       weight |-> "B"],
      [word |-> <<"m", "d">>, weight |-> "C"] }
    \cup (IF IsPresent(r.payload)
          THEN { [word |-> LowerCase(Get(r.payload)[i]), weight |-> "D"] :
                     i \in DOMAIN Get(r.payload) }
          ELSE {})

\* to_tsquery: the operands of an '&'-joined expression, each a word with an
\* optional ':*' marker. An empty operand is a syntax error (Absent).
ParseOperand(p) ==
    LET n == Len(p)
        marked == n >= 2 /\ p[n - 1] = ":" /\ p[n] = "*"
        w == IF marked THEN SubSeq(p, 1, n - 2) ELSE p
    IN  [word |-> w, prefix |-> marked]

OperandOk(t) ==
    /\ t.word # <<>>
    /\ \A i \in DOMAIN t.word : t.word[i] \notin {" ", ":", "*", "&"}

to_tsquery(q) ==
    LET pieces == Split(q, "&")
        terms  == [i \in DOMAIN pieces |-> ParseOperand(Trim(pieces[i]))]
    IN  IF \A i \in DOMAIN terms : OperandOk(terms[i]) THEN Some(terms) ELSE Absent

TermMatches(t, l) == IF t.prefix THEN IsPrefix(t.word, l.word) ELSE t.word = l.word

\* search_vector @@ tsquery
TsMatch(r, tsq) ==
    \A i \in DOMAIN tsq : \E l \in SearchVector(r) : TermMatches(tsq[i], l)

RECURSIVE SumWeights(_)
SumWeights(ls) ==
    IF ls = {} THEN 0
    ELSE LET l == CHOOSE x \in ls : TRUE
         IN  WeightOf(l.weight) + SumWeights(ls \ {l})

\* ts_rank(search_vector, tsquery): grows with the weight of the lexemes the
\* query matches.
ts_rank(r, tsq) ==
    SumWeights({ l \in SearchVector(r) : \E i \in DOMAIN tsq : TermMatches(tsq[i], l) })

\* Mutant: containment of every listed string (@>) instead of any (?|).
JsonbHasAll(payload, tags) ==
    /\ IsPresent(payload)
    /\ \A i \in DOMAIN tags : \E j \in DOMAIN Get(payload) : Get(payload)[j] = tags[i]

\* payload::jsonb ?| ARRAY['t1', ...]: some listed string is an element of
\* the payload array; NULL for a NULL payload, which selects no row.
JsonbHasAny(payload, tags) ==
    /\ IsPresent(payload)
    /\ \E i \in DOMAIN tags : \E j \in DOMAIN Get(payload) : Get(payload)[j] = tags[i]

\* ------------------------------------------------------------------------
\* AdvocatesService helpers (advocates.service.ts)
\* ------------------------------------------------------------------------
\* JavaScript `x || d` on an optional number: undefined and 0 are falsy.
OrDefault(o, d) == IF IsPresent(o) /\ Get(o) # 0 THEN Get(o) ELSE d

\* Mutant: the limit is not capped at MAX_LIMIT.
validatePaginationUncapped(page, limit) ==
    LET validPage  == Max2(1, OrDefault(page, DEFAULT_PAGE))
        validLimit == Max2(1, OrDefault(limit, DEFAULT_LIMIT))
    IN  [page |-> validPage, limit |-> validLimit, offset |-> (validPage - 1) * validLimit]

\* Mutant: the page is not raised to 1.
validatePaginationAnyPage(page, limit) ==
    LET validPage  == OrDefault(page, DEFAULT_PAGE)
        validLimit == Min2(MAX_LIMIT, Max2(1, OrDefault(limit, DEFAULT_LIMIT)))
    IN  [page |-> validPage, limit |-> validLimit, offset |-> (validPage - 1) * validLimit]

\* Mutant: the offset is page * limit.
validatePaginationOffsetByPage(page, limit) ==
    LET validPage  == Max2(1, OrDefault(page, DEFAULT_PAGE))
        validLimit == Min2(MAX_LIMIT, Max2(1, OrDefault(limit, DEFAULT_LIMIT)))
    IN  [page |-> validPage, limit |-> validLimit, offset |-> validPage * validLimit]
validatePagination(page, limit) ==
    LET validPage  == Max2(1, OrDefault(page, DEFAULT_PAGE))
        validLimit == Min2(MAX_LIMIT, Max2(1, OrDefault(limit, DEFAULT_LIMIT)))
    IN  [page |-> validPage, limit |-> validLimit, offset |-> (validPage - 1) * validLimit]

\* Math.ceil(totalCount / limit) for totalCount >= 0 and limit >= 1.
\* Mutant: the page count is rounded down and one is added.
calculatePaginationFloorPlusOne(page, limit, totalCount) ==
    [page |-> page, limit |-> limit, totalCount |-> totalCount,
     totalPages |-> (totalCount \div limit) + 1]
calculatePagination(page, limit, totalCount) ==
    [page |-> page, limit |-> limit, totalCount |-> totalCount,
     totalPages |-> (totalCount + limit - 1) \div limit]

\* The property of the row each field of the result is read from.
PropertyRead ==
    [ id                |-> "id",
      firstName         |-> "first_name",
      lastName          |-> "last_name",
      city              |-> "city",
      degree            |-> "degree",
      yearsOfExperience |-> "years_of_experience",
      phoneNumber       |-> "phone_number" ]

\* Reading a property the row does not have gives undefined: the field is
\* then missing from the record the caller receives. specialties falls back
\* to the empty array.
transformAdvocate(dbAdvocate) ==
    LET defined == { f \in DOMAIN PropertyRead : PropertyRead[f] \in DOMAIN dbAdvocate }
    IN  [ f \in defined \cup {"specialties"} |->
            IF f = "specialties"
            THEN IF "specialties" \in DOMAIN dbAdvocate /\ IsPresent(dbAdvocate.specialties)
                 THEN Get(dbAdvocate.specialties) ELSE <<>>
            ELSE dbAdvocate[PropertyRead[f]] ]

\* Mutant: the comparator ignores sortOrder.
SortCompareAscendingOnly(a, b, sortBy, sortOrder) ==
    CASE sortBy = Some("name")       -> localeCompare(a.lastName, b.lastName)
      [] sortBy = Some("experience") -> a.yearsOfExperience - b.yearsOfExperience
      [] sortBy = Some("city")       -> localeCompare(a.city, b.city)
      [] OTHER                       -> 0
\* The comparator of transformedAdvocates.sort (lines 111-124).
SortCompare(a, b, sortBy, sortOrder) ==
    LET order == IF sortOrder = Some("desc") THEN -1 ELSE 1 IN
    CASE sortBy = Some("name")       -> order * localeCompare(a.lastName, b.lastName)
      [] sortBy = Some("experience") -> order * (a.yearsOfExperience - b.yearsOfExperience)
      [] sortBy = Some("city")       -> order * localeCompare(a.city, b.city)
      [] OTHER                       -> 0

\* Mutant: an element that compares equal to one already placed is dropped.
RECURSIVE InsertDistinct(_, _, _, _)
InsertDistinct(sorted, x, sortBy, sortOrder) ==
    IF sorted = <<>> THEN <<x>>
    ELSE IF SortCompare(x, Head(sorted), sortBy, sortOrder) < 0 THEN <<x>> \o sorted
    ELSE IF SortCompare(x, Head(sorted), sortBy, sortOrder) = 0 THEN sorted
    ELSE <<Head(sorted)>> \o InsertDistinct(Tail(sorted), x, sortBy, sortOrder)
\* Array.prototype.sort is stable: x goes after every element that does not
\* compare greater than it.
RECURSIVE InsertStable(_, _, _, _)
InsertStable(sorted, x, sortBy, sortOrder) ==
    IF sorted = <<>> THEN <<x>>
    ELSE IF SortCompare(x, Head(sorted), sortBy, sortOrder) < 0 THEN <<x>> \o sorted
    ELSE <<Head(sorted)>> \o InsertStable(Tail(sorted), x, sortBy, sortOrder)

RECURSIVE StableSort(_, _, _)
StableSort(xs, sortBy, sortOrder) ==
    IF xs = <<>> THEN <<>>
    ELSE InsertStable(StableSort(SubSeq(xs, 1, Len(xs) - 1), sortBy, sortOrder),
                      xs[Len(xs)], sortBy, sortOrder)

\* Mutant: an absent sortBy sorts by name.
ApplySortDefaultName(xs, sortBy, sortOrder) ==
    IF sortBy = Some("relevance") THEN xs
    ELSE StableSort(xs, IF IsPresent(sortBy) THEN sortBy ELSE Some("name"), sortOrder)
\* Lines 110-125: the secondary sort runs for a sortBy other than 'relevance'.
ApplySort(xs, sortBy, sortOrder) ==
    IF IsPresent(sortBy) /\ sortBy # Some("relevance")
    THEN StableSort(xs, sortBy, sortOrder) ELSE xs

\* Lines 80-104: which repository method the service calls, and with which
\* search argument.
HasTags(r) == IsPresent(r.specialties) /\ Len(Get(r.specialties)) > 0
\* Mutant: the search term is tested without trimming it.
HasSearchUntrimmed(r) == IsPresent(r.search) /\ Get(r.search) # <<>>

HasSearch(r) == IsPresent(r.search) /\ Trim(Get(r.search)) # <<>>

ServiceBranch(r) ==
    IF HasTags(r) THEN "getAdvocatesBySpecialties"
    ELSE IF HasSearch(r) THEN "searchAdvocates"
    ELSE "getAllAdvocates"

SearchArgument(r) == IF IsPresent(r.search) THEN Trim(Get(r.search)) ELSE <<>>

\* Mutant: the service lets the repository's error through.
ServiceErrorRethrown(repositoryMessage) == repositoryMessage

\* The service's catch block (lines 131-134).
ServiceError(repositoryMessage) == "Failed to search advocates"

\* ------------------------------------------------------------------------
\* AdvocateRepository (part_001)
\* ------------------------------------------------------------------------
\* Mutant: getAdvocatesBySpecialties builds the text expression whatever its
\* search argument is.
RepositoryStrategyAlwaysText(method, search) ==
    CASE method = "getAdvocatesBySpecialties" -> "searchTags"
      [] method = "searchAdvocates" -> "search"
      [] OTHER -> "plain"
\* The strategy a repository method executes: getAdvocatesBySpecialties
\* branches on its search argument (line 111).
RepositoryStrategy(method, search) ==
    CASE method = "getAdvocatesBySpecialties" ->
            IF search # <<>> /\ Trim(search) # <<>> THEN "searchTags" ELSE "tags"
      [] method = "searchAdvocates" -> "search"
      [] OTHER -> "plain"

UsesTextMatch(strategy) == strategy \in {"search", "searchTags"}

\* The catch block of each repository method.
RepositoryError(method) ==
    CASE method = "searchAdvocates" -> "Failed to search advocates"
      [] method = "getAdvocatesBySpecialties" -> "Failed to fetch advocates by specialties"
      [] OTHER -> "Failed to fetch advocates"

\* Mutant: the combined strategy selects rows that match the text or have a
\* tag.
PageWhereEither(strategy, r, tsq, tags) ==
    CASE strategy = "search"     -> TsMatch(r, tsq)
      [] strategy = "searchTags" -> TsMatch(r, tsq) \/ JsonbHasAny(r.payload, tags)
      [] strategy = "tags"       -> JsonbHasAny(r.payload, tags)
      [] OTHER                   -> TRUE
\* The WHERE clause of each strategy's page query.
PageWhere(strategy, r, tsq, tags) ==
    CASE strategy = "search"     -> TsMatch(r, tsq)
      [] strategy = "searchTags" -> TsMatch(r, tsq) /\ JsonbHasAny(r.payload, tags)
      [] strategy = "tags"       -> JsonbHasAny(r.payload, tags)
      [] OTHER                   -> TRUE

\* Mutant: the combined strategy's count query loses the tag filter.
CountWhereDrifted(strategy, r, tsq, tags) ==
    CASE strategy = "search"     -> TsMatch(r, tsq)
      [] strategy = "searchTags" -> TsMatch(r, tsq)
      [] strategy = "tags"       -> JsonbHasAny(r.payload, tags)
      [] OTHER                   -> TRUE

\* The WHERE clause of each strategy's count query.
CountWhere(strategy, r, tsq, tags) ==
    CASE strategy = "search"     -> TsMatch(r, tsq)
      [] strategy = "searchTags" -> TsMatch(r, tsq) /\ JsonbHasAny(r.payload, tags)
      [] strategy = "tags"       -> JsonbHasAny(r.payload, tags)
      [] OTHER                   -> TRUE

\* The SELECT list: payload is returned as specialties; the ranked queries
\* add a rank column.
SelectRow(strategy, r, tsq) ==
    LET base == [ id |-> r.id, first_name |-> r.first_name, last_name |-> r.last_name,
                  city |-> r.city, degree |-> r.degree, specialties |-> r.payload,
                  years_of_experience |-> r.years_of_experience,
                  phone_number |-> r.phone_number ]
    IN  IF UsesTextMatch(strategy)
        THEN [f \in DOMAIN base \cup {"rank"} |->
                 IF f = "rank" THEN ts_rank(r, tsq) ELSE base[f]]
        ELSE base

RECURSIVE Arrangements(_)
Arrangements(S) ==
    IF S = {} THEN {<<>>}
    ELSE UNION { { <<x>> \o p : p \in Arrangements(S \ {x}) } : x \in S }

\* Mutant: the query has no ORDER BY clause.
OrderKeyAny(strategy, a, b) == TRUE

\* Mutant: the ranked queries order by rank ASC.
OrderKeyRankAscending(strategy, a, b) ==
    IF UsesTextMatch(strategy) THEN a.rank <= b.rank ELSE a.id < b.id
\* ORDER BY id is a total order; ORDER BY rank DESC leaves rows of equal
\* rank in an order the database is free to choose.
OrderKeyOk(strategy, a, b) ==
    IF UsesTextMatch(strategy) THEN a.rank >= b.rank ELSE a.id < b.id

QueryOrders(strategy, table, tsq, tags) ==
    LET hits == { SelectRow(strategy, table[i], tsq) :
                    i \in { j \in DOMAIN table : PageWhere(strategy, table[j], tsq, tags) } }
    IN  { p \in Arrangements(hits) :
            \A i \in 1..(Len(p) - 1) : OrderKeyOk(strategy, p[i], p[i + 1]) }

\* Mutant: an offset past the end falls back to the last rows.
LimitOffsetLastRows(ordered, limit, offset) ==
    IF offset >= Len(ordered)
    THEN SubSeq(ordered, Max2(1, Len(ordered) - limit + 1), Len(ordered))
    ELSE SubSeq(ordered, offset + 1, Min2(Len(ordered), offset + limit))

\* LIMIT limit OFFSET offset
LimitOffset(ordered, limit, offset) ==
    SubSeq(ordered, offset + 1, Min2(Len(ordered), offset + limit))

\* SELECT COUNT(*) ... ; parseInt(countResult[0].count)
CountRows(strategy, table, tsq, tags) ==
    Cardinality({ i \in DOMAIN table : CountWhere(strategy, table[i], tsq, tags) })

\* ------------------------------------------------------------------------
\* Inputs
\* ------------------------------------------------------------------------
Terms == { Absent, Some(<<>>), Some(<<" ">>), Some(<<"j", " ">>),
           Some(<<"j", "o", " ", "s">>), Some(<<"j", " ", " ", "s">>) }
TagLists == { Absent, Some(<<>>), Some(<<"J">>), Some(<<"J", "S">>) }
Pages == { Absent } \cup { Some(p) : p \in -1..MaxPage }
Limits == { Absent, Some(MAX_LIMIT + 1) } \cup { Some(l) : l \in -1..MaxSmallLimit }
SortOptions ==
    { <<Absent, Absent>>, <<Some("relevance"), Some("desc")>>,
      <<Some("name"), Some("asc")>>, <<Some("name"), Some("desc")>>,
      <<Some("experience"), Some("asc")>>, <<Some("experience"), Some("desc")>>,
      <<Some("city"), Absent>>, <<Some("city"), Some("desc")>> }
\* A query string may carry any sortBy: one that is not a sort field too.
HttpSortOptions == SortOptions \cup { <<Some("rating"), Absent>> }
Causes == { "connection lost", "statement timeout" }

Request(search, specialties, page, limit, sort) ==
    [ search |-> search, specialties |-> specialties, page |-> page, limit |-> limit,
      sortBy |-> sort[1], sortOrder |-> sort[2] ]

NoRequest == Request(Absent, Absent, Absent, Absent, <<Absent, Absent>>)
NoPlan == [ method |-> "", strategy |-> "", searchQuery |-> <<>>, tags |-> <<>> ]
NoPaging == [ page |-> 0, limit |-> 0, offset |-> 0 ]
NoResponse == [ kind |-> "none" ]

\* ------------------------------------------------------------------------
\* State
\* ------------------------------------------------------------------------
VARIABLES
    table,      \* the advocates table, in id order
    pc,         \* "idle", "page" (page query in flight), "count", "done"
    via,        \* the entry point of the request in progress
    req,        \* the request the service received
    paging,     \* validatePagination's result
    plan,       \* repository method, strategy and query expression
    advocates,  \* the rows the page query returned
    resp,       \* what the caller receives
    httpStatus, \* the status of the HTTP response, 0 for a direct call
    queries,    \* the retrieval calls issued by this invocation, in order
    pageSeen,   \* number of rows in the table when the page query ran
    countSeen,  \* number of rows in the table when the count query ran
    previous,   \* the last answer a caller kept, to compare a repeated call with
    calc,       \* the last call of calculatePagination: arguments and result
    calls,      \* concurrent invocations: the locals of each caller's call
    cache,      \* the controller's response cache: (key, value) entries
    inj,        \* the tag filter as built and as the database read it
    hook,       \* useAdvocates: the React state of the hook
    timers,     \* useAdvocates: the timeouts that are set and have not fired
    fetches,    \* useAdvocates: every fetch issued, in order, with its outcome
    changes,    \* useAdvocates: every search-term change, in order, with its time
    clock       \* the browser's time in milliseconds

\* The table and the invocation in progress.
invocation == << table, pc, via, req, paging, plan, advocates, resp, httpStatus, queries,
                 pageSeen, countSeen >>

\* State the search invocation itself never touches.
concurrent == << calls, cache >>
frontend == << hook, timers, fetches, changes, clock >>
standalone == << inj, frontend >>
others == << previous, calc, concurrent, standalone >>

vars == << invocation, others >>

NoPrevious == [ kind |-> "none" ]
NoCalc == [ kind |-> "none" ]
NoCall == [ pc |-> "idle" ]
NoInjection == [ kind |-> "none" ]

\* useAdvocates(initialLimit = 50) and its useState initial values.
InitialLimit == 50
InitialHookState ==
    [ mounted |-> FALSE, advocates |-> <<>>, loading |-> FALSE, error |-> Absent,
      searchTerm |-> <<>>, pagination |-> Absent, debounceTimer |-> Absent ]
Callers == { 1, 2 }

NothingInProgress ==
    /\ pc = "idle"
    /\ via = "none"
    /\ req = NoRequest
    /\ paging = NoPaging
    /\ plan = NoPlan
    /\ advocates = <<>>
    /\ resp = NoResponse
    /\ httpStatus = 0
    /\ queries = <<>>
    /\ pageSeen = 0
    /\ countSeen = 0
    /\ previous = NoPrevious
    /\ calc = NoCalc
    /\ calls = [c \in Callers |-> NoCall]
    /\ cache = {}
    /\ inj = NoInjection
    /\ hook = InitialHookState
    /\ timers = {}
    /\ fetches = <<>>
    /\ changes = <<>>
    /\ clock = 0

Init ==
    /\ table = <<>>
    /\ NothingInProgress

\* The ingestion path (seed route, POST): one more row, with the next id.
InsertAdvocate ==
    /\ Len(table) < MaxRecords
    /\ table' = Append(table, RowOfId(Len(table) + 1))
    /\ UNCHANGED << pc, via, req, paging, plan, advocates, resp, httpStatus, queries,
                    pageSeen, countSeen >>
    /\ UNCHANGED others

\* The row db.select().from(advocates) returns: the properties of the
\* drizzle schema, which names them in camelCase.
OrmRow(r) ==
    [ id                |-> r.id,
      firstName         |-> r.first_name,
      lastName          |-> r.last_name,
      city              |-> r.city,
      degree            |-> r.degree,
      specialties       |-> r.payload,
      yearsOfExperience |-> r.years_of_experience,
      phoneNumber       |-> r.phone_number ]

\* AdvocatesService.getAdvocateById: null for an unknown id, the transformed
\* row otherwise, 'Failed to fetch advocate' when the query throws.
GetAdvocateById ==
    /\ pc = "idle"
    /\ \E id \in 1..MaxRecords, thrown \in BOOLEAN :
          resp' = IF thrown
                  THEN [ kind |-> "fetchFailed", message |-> "Failed to fetch advocate" ]
                  ELSE IF id \in DOMAIN table
                  THEN [ kind |-> "advocate",
                         advocate |-> transformAdvocate(OrmRow(table[id])) ]
                  ELSE [ kind |-> "null" ]
    /\ via' = "service"
    /\ pc' = "done"
    /\ UNCHANGED << table, req, paging, plan, advocates, httpStatus, queries, pageSeen,
                    countSeen >>
    /\ UNCHANGED others
\* AdvocatesService.searchAdvocates up to its first await: pagination is
\* validated, the repository method is chosen, the method builds its
\* expressions and issues the page query.
PlanOf(r) ==
    LET method == ServiceBranch(r)
        search == IF method = "getAllAdvocates" THEN <<>> ELSE SearchArgument(r)
        strategy == RepositoryStrategy(method, search)
    IN  [ method      |-> method,
          strategy    |-> strategy,
          searchQuery |-> IF UsesTextMatch(strategy) THEN BuildSearchQuery(search) ELSE <<>>,
          tags        |-> IF HasTags(r) THEN Get(r.specialties) ELSE <<>> ]

PageQuery(strategy, p) ==
    [ kind |-> "page", strategy |-> strategy, limit |-> p.limit, offset |-> p.offset ]

\* Mutant: the second retrieval call repeats the page query.
CountQueryRepeatsPage(strategy) == [ kind |-> "page", strategy |-> strategy ]
CountQuery(strategy) == [ kind |-> "count", strategy |-> strategy ]

EnterService(r, entry) ==
    /\ via' = entry
    /\ req' = r
    /\ paging' = validatePagination(r.page, r.limit)
    /\ plan' = PlanOf(r)
    /\ queries' = << PageQuery(PlanOf(r).strategy, validatePagination(r.page, r.limit)) >>
    /\ pc' = "page"
    /\ UNCHANGED << table, advocates, resp, httpStatus, pageSeen, countSeen >>
    /\ UNCHANGED others

Reject(r, entry, message) ==
    /\ via' = entry
    /\ req' = r
    /\ resp' = [ kind |-> "rejected", message |-> message ]
    /\ httpStatus' = 400
    /\ pc' = "done"
    /\ UNCHANGED << table, paging, plan, advocates, queries, pageSeen, countSeen >>
    /\ UNCHANGED others

\* A caller invokes the service directly.
ServiceCall ==
    /\ pc = "idle"
    /\ \E search \in Terms, specialties \in TagLists, page \in Pages, limit \in Limits,
          sort \in SortOptions :
          EnterService(Request(search, specialties, page, limit, sort), "service")

\* GET /api/advocates of the Next.js route: page and limit below 1 are
\* rejected with a ValidationError (400); the request has no specialties.
\* Mutant: the route also rejects a limit above the maximum.
RouteCheckWithMax(page, limit) ==
    IF IsPresent(page) /\ Get(page) < 1 THEN "Invalid page parameter"
    ELSE IF IsPresent(limit) /\ (Get(limit) < 1 \/ Get(limit) > MAX_LIMIT)
         THEN "Invalid limit parameter"
    ELSE "ok"

RouteCheck(page, limit) ==
    IF IsPresent(page) /\ Get(page) < 1 THEN "Invalid page parameter"
    ELSE IF IsPresent(limit) /\ Get(limit) < 1 THEN "Invalid limit parameter"
    ELSE "ok"

RouteGet ==
    /\ pc = "idle"
    /\ \E search \in Terms, page \in Pages, limit \in Limits, sort \in HttpSortOptions :
          LET r == Request(search, Absent, page, limit, sort) IN
          IF RouteCheck(page, limit) = "ok"
          THEN EnterService(r, "route")
          ELSE Reject(r, "route", RouteCheck(page, limit))

\* GET api/advocates of the NestJS controller: the global ValidationPipe
\* checks the query against SearchAdvocatesDto (@Min(1) page, @Min(1)
\* @Max(100) limit) and fills the DTO's defaults.
DtoCheck(page, limit) ==
    IF IsPresent(page) /\ Get(page) < 1 THEN "page must not be less than 1"
    ELSE IF IsPresent(limit) /\ Get(limit) < 1 THEN "limit must not be less than 1"
    ELSE IF IsPresent(limit) /\ Get(limit) > 100 THEN "limit must not be greater than 100"
    ELSE "ok"

DtoDefaults(r) ==
    [ r EXCEPT !.page = IF IsPresent(@) THEN @ ELSE Some(1),
               !.limit = IF IsPresent(@) THEN @ ELSE Some(50),
               !.sortBy = IF IsPresent(@) THEN @ ELSE Some("relevance"),
               !.sortOrder = IF IsPresent(@) THEN @ ELSE Some("desc") ]

\* @IsIn(['relevance', 'name', 'experience', 'city']) on sortBy.
DtoSortCheck(sortBy) ==
    IF IsPresent(sortBy) /\ Get(sortBy) \notin {"relevance", "name", "experience", "city"}
    THEN "sortBy must be one of the following values: relevance, name, experience, city"
    ELSE "ok"

ControllerGet ==
    /\ pc = "idle"
    /\ \E search \in Terms, specialties \in TagLists, page \in Pages, limit \in Limits,
          sort \in HttpSortOptions :
          LET r == Request(search, specialties, page, limit, sort)
              verdict == IF DtoCheck(page, limit) # "ok" THEN DtoCheck(page, limit)
                         ELSE DtoSortCheck(r.sortBy)
          IN  IF verdict = "ok"
              THEN EnterService(DtoDefaults(r), "controller")
              ELSE Reject(r, "controller", verdict)

\* What the entry point makes of the service's outcome.
StatusOf(entry, kind) ==
    IF entry = "service" THEN 0 ELSE IF kind = "ok" THEN 200 ELSE 500

\* A query throws: the repository's catch rethrows its own message, the
\* service's catch replaces it; nothing else is returned.
Fail(which) ==
    /\ resp' = [ kind |-> "error", message |-> ServiceError(RepositoryError(plan.method)),
                 failed |-> which ]
    /\ httpStatus' = StatusOf(via, "error")
    /\ pc' = "done"

ParsedQuery == IF UsesTextMatch(plan.strategy) THEN to_tsquery(plan.searchQuery)
               ELSE Some(<<>>)

\* The page query returns.
PageQueryReturns ==
    /\ pc = "page"
    /\ IsPresent(ParsedQuery)
    /\ LET q == queries[Len(queries)] IN
       \E ordered \in QueryOrders(q.strategy, table, Get(ParsedQuery), plan.tags) :
          advocates' = LimitOffset(ordered, q.limit, q.offset)
    /\ pageSeen' = Len(table)
    /\ queries' = Append(queries, CountQuery(plan.strategy))
    /\ pc' = "count"
    /\ UNCHANGED << table, via, req, paging, plan, resp, httpStatus, countSeen >>
    /\ UNCHANGED others

\* The page query throws: a malformed expression always does, anything else
\* (connectivity, timeout) may.
PageQueryThrows ==
    /\ pc = "page"
    /\ \E cause \in Causes \cup {"syntax error in tsquery"} :
          (cause = "syntax error in tsquery") => ~IsPresent(ParsedQuery)
    /\ Fail("page")
    /\ UNCHANGED << table, via, req, paging, plan, advocates, queries, pageSeen, countSeen >>
    /\ UNCHANGED others

\* The count query returns; the rest of the service runs to its return
\* statement: transform, secondary sort, pagination.
CountQueryReturns ==
    /\ pc = "count"
    /\ LET totalCount == CountRows(queries[Len(queries)].strategy, table,
                                   Get(ParsedQuery), plan.tags)
           transformed == [i \in DOMAIN advocates |-> transformAdvocate(advocates[i])]
       IN  resp' = [ kind |-> "ok",
                     data |-> ApplySort(transformed, req.sortBy, req.sortOrder),
                     pagination |-> calculatePagination(paging.page, paging.limit,
                                                        totalCount) ]
    /\ httpStatus' = StatusOf(via, "ok")
    /\ countSeen' = Len(table)
    /\ pc' = "done"
    /\ UNCHANGED << table, via, req, paging, plan, advocates, queries, pageSeen >>
    /\ UNCHANGED others

CountQueryThrows ==
    /\ pc = "count"
    /\ \E cause \in Causes : TRUE
    /\ Fail("count")
    /\ UNCHANGED << table, via, req, paging, plan, advocates, queries, pageSeen, countSeen >>
    /\ UNCHANGED others

\* The invocation is over: its locals are gone.
EndInvocation ==
    /\ pc' = "idle"
    /\ via' = "none"
    /\ req' = NoRequest
    /\ paging' = NoPaging
    /\ plan' = NoPlan
    /\ advocates' = <<>>
    /\ resp' = NoResponse
    /\ httpStatus' = 0
    /\ queries' = <<>>
    /\ pageSeen' = 0
    /\ countSeen' = 0
    /\ UNCHANGED table

\* The caller has its answer; the next request may start.
Return ==
    /\ pc = "done"
    /\ EndInvocation
    /\ UNCHANGED others

Next ==
    \/ InsertAdvocate
    \/ ServiceCall
    \/ RouteGet
    \/ ControllerGet
    \/ GetAdvocateById
    \/ PageQueryReturns
    \/ PageQueryThrows
    \/ CountQueryReturns
    \/ CountQueryThrows
    \/ Return

Spec == Init /\ [][Next]_vars

\* ------------------------------------------------------------------------
\* A caller that repeats its call: the same request is sent to the service
\* a second time and the two answers are compared.
\* ------------------------------------------------------------------------
RepeatPages == { Absent, Some(2) }
RepeatLimits == { Absent, Some(1), Some(MaxSmallLimit) }

FirstCall ==
    /\ pc = "idle"
    /\ previous = NoPrevious
    /\ \E search \in Terms, specialties \in TagLists, page \in RepeatPages,
          limit \in RepeatLimits, sort \in SortOptions :
          EnterService(Request(search, specialties, page, limit, sort), "service")

SecondCall ==
    /\ pc = "idle"
    /\ previous # NoPrevious
    /\ EnterService(previous.req, "service")

\* The caller keeps the first answer it got and drops it after the second.
ReturnToRepeat ==
    /\ pc = "done"
    /\ EndInvocation
    /\ previous' = IF previous = NoPrevious /\ resp.kind = "ok"
                   THEN [ kind |-> "answer", req |-> req, data |-> resp.data,
                          pagination |-> resp.pagination,
                          pageSeen |-> pageSeen, countSeen |-> countSeen ]
                   ELSE NoPrevious
    /\ UNCHANGED << calc, concurrent, standalone >>

NextRepeat ==
    \/ InsertAdvocate
    \/ FirstCall
    \/ SecondCall
    \/ PageQueryReturns
    \/ PageQueryThrows
    \/ CountQueryReturns
    \/ CountQueryThrows
    \/ ReturnToRepeat

SpecRepeat == Init /\ [][NextRepeat]_vars

\* ------------------------------------------------------------------------
\* A caller that reads a result page by page: page 1, then every further
\* page up to totalPages with the same query and limit, keeping the ids of
\* each page.  It starts over when the table changed under it or a call
\* failed.
\* ------------------------------------------------------------------------
WalkLimits == { Some(l) : l \in 1..MaxSmallLimit }

WalkFirstPage ==
    /\ pc = "idle"
    /\ previous = NoPrevious
    /\ \E search \in Terms, specialties \in TagLists, limit \in WalkLimits,
          sort \in SortOptions :
          EnterService(Request(search, specialties, Some(1), limit, sort), "service")

WalkNextPage ==
    /\ pc = "idle"
    /\ previous # NoPrevious
    /\ Len(previous.pages) < previous.totalPages
    /\ EnterService([previous.req EXCEPT !.page = Some(Len(previous.pages) + 1)],
                    "service")

\* The caller keeps the page it got.
ReturnToWalk ==
    /\ pc = "done"
    /\ EndInvocation
    /\ previous' =
          IF resp.kind # "ok" \/ pageSeen # countSeen THEN NoPrevious
          ELSE IF previous = NoPrevious
               THEN [ kind |-> "pages", req |-> req, seen |-> pageSeen,
                      limit |-> resp.pagination.limit,
                      totalPages |-> resp.pagination.totalPages,
                      pages |-> << [i \in DOMAIN resp.data |-> resp.data[i].id] >> ]
               ELSE IF pageSeen # previous.seen THEN NoPrevious
                    ELSE [ previous EXCEPT
                             !.pages = Append(@, [i \in DOMAIN resp.data |-> resp.data[i].id]) ]
    /\ UNCHANGED << calc, concurrent, standalone >>

\* Every page has been read.
WalkDone ==
    /\ pc = "idle"
    /\ previous # NoPrevious
    /\ Len(previous.pages) >= previous.totalPages
    /\ previous' = NoPrevious
    /\ UNCHANGED << invocation, calc, concurrent, standalone >>

NextWalk ==
    \/ InsertAdvocate
    \/ WalkFirstPage
    \/ WalkNextPage
    \/ PageQueryReturns
    \/ PageQueryThrows
    \/ CountQueryReturns
    \/ CountQueryThrows
    \/ ReturnToWalk
    \/ WalkDone

SpecWalk == Init /\ [][NextWalk]_vars

\* ------------------------------------------------------------------------
\* calculatePagination on its own, over every effective limit and total
\* counts larger than the table of the other specifications holds.
\* ------------------------------------------------------------------------
MaxTotalCount == 125

Calculate ==
    /\ calc = NoCalc
    /\ \E page \in 1..MaxPage, limit \in 1..MAX_LIMIT, totalCount \in 0..MaxTotalCount :
          calc' = [ kind |-> "called", page |-> page, limit |-> limit,
                    totalCount |-> totalCount,
                    pagination |-> calculatePagination(page, limit, totalCount) ]
    /\ UNCHANGED << invocation, previous, concurrent, standalone >>

\* The caller is done with the result.
CalculateDone ==
    /\ calc # NoCalc
    /\ calc' = NoCalc
    /\ UNCHANGED << invocation, previous, concurrent, standalone >>

NextPagination ==
    \/ Calculate
    \/ CalculateDone

SpecPagination == Init /\ [][NextPagination]_vars

\* ------------------------------------------------------------------------
\* Concurrent invocations: every caller has a call of its own in progress,
\* directly on the service or through the controller and its
\* CacheInterceptor. The table is seeded and does not change.
\* ------------------------------------------------------------------------
\* The requests the callers send: a plain listing, a ranked search and a
\* ranked search within a tag; page, limit and sort are left to the defaults.
ConcurrentRequests ==
    { Request(Absent, Absent, Absent, Absent, <<Absent, Absent>>),
      Request(Some(<<"j", " ">>), Absent, Absent, Absent, <<Absent, Absent>>),
      Request(Some(<<"j", " ">>), Some(<<"J">>), Absent, Absent, <<Absent, Absent>>) }

InitConcurrent ==
    /\ table = [i \in 1..MaxRecords |-> RowOfId(i)]
    /\ NothingInProgress

Started(key, r, entry) ==
    [ pc |-> "page", via |-> entry, key |-> key, req |-> r, advocates |-> <<>>,
      resp |-> NoResponse, seen |-> Len(table) ]

Finished(call, response) == [ call EXCEPT !.pc = "done", !.resp = response ]

\* What the interceptor finds under a key.
Cached(key) == { e.value : e \in { x \in cache : x.key = key } }

CallService(c) ==
    /\ calls[c].pc = "idle"
    /\ \E r \in ConcurrentRequests :
          calls' = [calls EXCEPT ![c] = Started(r, r, "service")]
    /\ UNCHANGED << invocation, previous, calc, cache, standalone >>

\* GET through the controller: the interceptor answers from the cache when
\* it holds the request's key, otherwise the handler runs.
CallController(c) ==
    /\ calls[c].pc = "idle"
    /\ \E r \in ConcurrentRequests :
          calls' = [calls EXCEPT ![c] =
                      IF Cached(r) # {}
                      THEN Finished(Started(r, r, "controller"),
                                    CHOOSE v \in Cached(r) : TRUE)
                      ELSE Started(r, DtoDefaults(r), "controller")]
    /\ UNCHANGED << invocation, previous, calc, cache, standalone >>

CallPlan(call) == PlanOf(call.req)
CallPaging(call) == validatePagination(call.req.page, call.req.limit)
CallParsedQuery(call) ==
    IF UsesTextMatch(CallPlan(call).strategy) THEN to_tsquery(CallPlan(call).searchQuery)
    ELSE Some(<<>>)

\* Mutant: the rows are kept in a field of the shared instance, so they
\* replace the rows of every call that waits for its count.
StoreRowsShared(cs, c, rows) ==
    [x \in DOMAIN cs |->
        IF x = c THEN [cs[x] EXCEPT !.advocates = rows, !.pc = "count"]
        ELSE IF cs[x].pc = "count" THEN [cs[x] EXCEPT !.advocates = rows]
        ELSE cs[x]]

\* The rows of the page query are a local of the call.
StoreRows(cs, c, rows) == [cs EXCEPT ![c].advocates = rows, ![c].pc = "count"]

CallPageReturns(c) ==
    /\ calls[c].pc = "page"
    /\ IsPresent(CallParsedQuery(calls[c]))
    /\ \E ordered \in QueryOrders(CallPlan(calls[c]).strategy, table,
                                   Get(CallParsedQuery(calls[c])), CallPlan(calls[c]).tags) :
          calls' = StoreRows(calls, c, LimitOffset(ordered, CallPaging(calls[c]).limit,
                                                   CallPaging(calls[c]).offset))
    /\ UNCHANGED << invocation, previous, calc, cache, standalone >>

\* The answer of a call whose page query returned rows.
AnswerOf(call, rows) ==
    [ kind |-> "ok",
      data |-> ApplySort([i \in DOMAIN rows |-> transformAdvocate(rows[i])],
                         call.req.sortBy, call.req.sortOrder),
      pagination |-> calculatePagination(
                         CallPaging(call).page, CallPaging(call).limit,
                         CountRows(CallPlan(call).strategy, table,
                                   Get(CallParsedQuery(call)), CallPlan(call).tags)) ]

\* The count query returns and the call answers; the interceptor stores the
\* answer of a call that came through the controller under its key.
CallCountReturns(c) ==
    /\ calls[c].pc = "count"
    /\ calls' = [calls EXCEPT ![c] = Finished(@, AnswerOf(@, @.advocates))]
    /\ cache' = IF calls[c].via = "controller"
                THEN { e \in cache : e.key # calls[c].key }
                     \cup { [ key |-> calls[c].key,
                              value |-> AnswerOf(calls[c], calls[c].advocates) ] }
                ELSE cache
    /\ UNCHANGED << invocation, previous, calc, standalone >>

\* Either query throws: the call fails, nothing is cached.
CallThrows(c) ==
    /\ calls[c].pc \in {"page", "count"}
    /\ calls' = [calls EXCEPT ![c] =
                    Finished(@, [ kind |-> "error",
                                  message |-> ServiceError(
                                      RepositoryError(CallPlan(@).method)) ])]
    /\ UNCHANGED << invocation, previous, calc, cache, standalone >>

CallReturns(c) ==
    /\ calls[c].pc = "done"
    /\ calls' = [calls EXCEPT ![c] = NoCall]
    /\ UNCHANGED << invocation, previous, calc, cache, standalone >>

\* An entry's time to live is over.
CacheExpires ==
    /\ \E e \in cache : cache' = cache \ {e}
    /\ UNCHANGED << invocation, previous, calc, calls, standalone >>

NextConcurrent ==
    \/ \E c \in Callers : CallService(c)
    \/ \E c \in Callers : CallController(c)
    \/ \E c \in Callers : CallPageReturns(c)
    \/ \E c \in Callers : CallCountReturns(c)
    \/ \E c \in Callers : CallThrows(c)
    \/ \E c \in Callers : CallReturns(c)
    \/ CacheExpires

SpecConcurrent == InitConcurrent /\ [][NextConcurrent]_vars

\* ------------------------------------------------------------------------
\* One client calling again and again while records are added: the table
\* starts empty and grows; the calls go to the service or through the
\* controller and its CacheInterceptor, as above.
\* ------------------------------------------------------------------------
Client == 1

NextFresh ==
    \/ InsertAdvocate
    \/ CallService(Client)
    \/ CallController(Client)
    \/ CallPageReturns(Client)
    \/ CallCountReturns(Client)
    \/ CallThrows(Client)
    \/ CallReturns(Client)
    \/ CacheExpires

SpecFresh == Init /\ [][NextFresh]_vars

\* ------------------------------------------------------------------------
\* The tag filter of getAdvocatesBySpecialties as text.  The repository
\* writes each tag between two quote characters into the statement with
\* sql.raw, and the database reads the statement back.  A tag is a sequence
\* of characters here; the words OR and TRUE and the comment opener -- count
\* as one character each, and the spaces around them are left out.
\* ------------------------------------------------------------------------
InjectionTags ==
    { <<"J">>, <<"S">>, <<"O">>, <<"J", "'">>, <<"J", "'", "]", "OR", "TRUE", "--">> }
InjectionTagLists ==
    { <<t>> : t \in InjectionTags } \cup { <<t, u>> : t, u \in InjectionTags }

\* `'${s}'`
Quoted(tag) == <<"'">> \o tag \o <<"'">>

\* .join(',')
RECURSIVE JoinComma(_)
JoinComma(parts) ==
    IF parts = <<>> THEN <<>>
    ELSE IF Len(parts) = 1 THEN parts[1]
    ELSE parts[1] \o <<",">> \o JoinComma(Tail(parts))

\* `ARRAY[${specialties.map(s => `'${s}'`).join(',')}]`
SpecialtyArray(specialties) ==
    <<"ARRAY[">> \o JoinComma([i \in DOMAIN specialties |-> Quoted(specialties[i])])
                \o <<"]">>

\* A string literal of the statement, read from the character after its
\* opening quote: it ends at the next quote that is not doubled; a doubled
\* quote is one quote character of the value.
RECURSIVE ParseLiteral(_, _, _)
ParseLiteral(text, i, value) ==
    IF i > Len(text) THEN [ ok |-> FALSE ]
    ELSE IF text[i] = "'"
         THEN IF i + 1 <= Len(text) /\ text[i + 1] = "'"
              THEN ParseLiteral(text, i + 2, Append(value, "'"))
              ELSE [ ok |-> TRUE, value |-> value, next |-> i + 1 ]
         ELSE ParseLiteral(text, i + 1, Append(value, text[i]))

\* The elements of the ARRAY[...] constructor: literals separated by commas,
\* up to the closing bracket.
RECURSIVE ParseElements(_, _, _)
ParseElements(text, i, values) ==
    IF i > Len(text) \/ text[i] # "'" THEN [ ok |-> FALSE ]
    ELSE LET lit == ParseLiteral(text, i + 1, <<>>)
         IN  IF ~lit.ok \/ lit.next > Len(text) THEN [ ok |-> FALSE ]
             ELSE IF text[lit.next] = ","
                  THEN ParseElements(text, lit.next + 1, Append(values, lit.value))
                  ELSE IF text[lit.next] = "]"
                       THEN [ ok |-> TRUE, values |-> Append(values, lit.value),
                              next |-> lit.next + 1 ]
                       ELSE [ ok |-> FALSE ]

\* The condition the database reads after `payload::jsonb ?|`, up to the end
\* of the line: the array of the any-of test, then nothing, a comment, or a
\* further condition.  Absent: the statement does not parse.
ParseFilter(text) ==
    IF text = <<>> \/ text[1] # "ARRAY[" THEN Absent
    ELSE LET elements == ParseElements(text, 2, <<>>)
         IN  IF ~elements.ok THEN Absent
             ELSE LET rest == SubSeq(text, elements.next, Len(text))
                  IN  IF rest = <<>> \/ rest[1] = "--"
                      THEN Some([ values |-> elements.values, orTrue |-> FALSE ])
                      ELSE IF /\ Len(rest) >= 2
                              /\ rest[1] = "OR"
                              /\ rest[2] = "TRUE"
                              /\ (Len(rest) = 2 \/ rest[3] = "--")
                           THEN Some([ values |-> elements.values, orTrue |-> TRUE ])
                           ELSE Absent

\* The characters of a specialty stored in the table.
TagText(specialty) == << specialty >>

\* WHERE payload::jsonb ?| <array> [OR TRUE], on one row.
FilterHolds(filter, r) ==
    \/ filter.orTrue
    \/ /\ IsPresent(r.payload)
       /\ \E i \in DOMAIN filter.values : \E j \in DOMAIN Get(r.payload) :
             TagText(Get(r.payload)[j]) = filter.values[i]

\* The page query of the tags-only branch, ORDER BY id, first page.
TagsQuery ==
    /\ inj = NoInjection
    /\ \E specialties \in InjectionTagLists :
          LET text == SpecialtyArray(specialties)
              filter == ParseFilter(text)
          IN  inj' = [ kind |-> "asked", specialties |-> specialties, text |-> text,
                       filter |-> filter,
                       outcome |-> IF IsPresent(filter) THEN "rows" ELSE "error",
                       seen |-> Len(table),
                       ids |-> IF IsPresent(filter)
                               THEN { i \in DOMAIN table : FilterHolds(Get(filter), table[i]) }
                               ELSE {} ]
    /\ UNCHANGED << invocation, previous, calc, concurrent, frontend >>

TagsQueryDone ==
    /\ inj # NoInjection
    /\ inj' = NoInjection
    /\ UNCHANGED << invocation, previous, calc, concurrent, frontend >>

NextInjection ==
    \/ InsertAdvocate
    \/ TagsQuery
    \/ TagsQueryDone

SpecInjection == Init /\ [][NextInjection]_vars

\* ------------------------------------------------------------------------
\* The useAdvocates hook (src/hooks/useAdvocates.ts): the handlers it
\* returns, its debounce timer and the responses of its fetches.  An event
\* handler runs against the state of the last render.  A timeout fires when
\* it is due: time does not pass a due timeout.  The server is the
\* environment: a response, when it comes, is the page the request asked
\* for, or a failure.
\* ------------------------------------------------------------------------
DebounceMs == 300
\* Time is counted in steps of a third of the delay.
TickMs == 100
MaxClock == 500
MaxChanges == 2
MaxFetches == 2

HookTerms == { <<"j">>, <<"j", "o">> }
HookPages == { 2 }
HookLimits == { 10 }

\* Everything the hook does not touch.
backend == << invocation, previous, calc, concurrent, inj >>

InFlight == { i \in DOMAIN fetches : fetches[i].outcome = "pending" }

\* pagination?.limit || initialLimit, pagination?.page || 1
LimitOrInitial(h) == IF IsPresent(h.pagination) THEN Get(h.pagination).limit ELSE InitialLimit
PageOrFirst(h) == IF IsPresent(h.pagination) THEN Get(h.pagination).page ELSE 1

\* fetchAdvocates up to its await: setLoading(true), setError(null) and the
\* request sent.  if (search) params.append('search', search).
FetchAdvocates(h, cause, search, page, limit) ==
    /\ Len(fetches) < MaxFetches
    /\ hook' = [ h EXCEPT !.loading = TRUE, !.error = Absent ]
    /\ fetches' = Append(fetches,
                         [ cause |-> cause,
                           search |-> IF search = <<>> THEN Absent ELSE Some(search),
                           page |-> page, limit |-> limit, outcome |-> "pending" ])

\* useEffect: the initial load.
InitialLoad ==
    /\ ~hook.mounted
    /\ FetchAdvocates([hook EXCEPT !.mounted = TRUE], "initial", <<>>, 1, InitialLimit)
    /\ UNCHANGED << timers, changes, clock, backend >>

\* Mutant: the pending timeout is left to fire.
ClearTimeoutNever(ts, timer) == ts

\* if (debounceTimer) clearTimeout(debounceTimer)
ClearTimeout(ts, timer) ==
    IF IsPresent(timer) THEN { t \in ts : t.id # Get(timer) } ELSE ts

\* handleSearchChange(term)
HandleSearchChange ==
    /\ hook.mounted
    /\ Len(changes) < MaxChanges
    /\ \E term \in HookTerms :
          /\ changes' = Append(changes, [ at |-> clock, term |-> term, fired |-> <<>> ])
          /\ timers' = ClearTimeout(timers, hook.debounceTimer)
                          \cup { [ id |-> Len(changes) + 1, term |-> term,
                                   limit |-> LimitOrInitial(hook),
                                   due |-> clock + DebounceMs ] }
          /\ hook' = [ hook EXCEPT !.searchTerm = term,
                                   !.debounceTimer = Some(Len(changes) + 1) ]
    /\ UNCHANGED << fetches, clock, backend >>

\* The timeout's callback: fetchAdvocates(term, 1, limit) with the term and
\* limit of the render that set it.  The change that set the timeout is
\* marked with the time and the number of the fetch.
TimerFires ==
    /\ \E t \in timers :
          /\ t.due <= clock
          /\ timers' = timers \ {t}
          /\ FetchAdvocates(hook, "debounce", t.term, 1, t.limit)
          /\ changes' = [ changes EXCEPT ![t.id].fired =
                             Append(@, [ at |-> clock, fetch |-> Len(fetches) + 1 ]) ]
    /\ UNCHANGED << clock, backend >>

HandlePageChange ==
    /\ hook.mounted
    /\ \E newPage \in HookPages :
          FetchAdvocates(hook, "page", hook.searchTerm, newPage, LimitOrInitial(hook))
    /\ UNCHANGED << timers, changes, clock, backend >>

HandleLimitChange ==
    /\ hook.mounted
    /\ \E newLimit \in HookLimits :
          FetchAdvocates(hook, "limit", hook.searchTerm, 1, newLimit)
    /\ UNCHANGED << timers, changes, clock, backend >>

Refresh ==
    /\ hook.mounted
    /\ FetchAdvocates(hook, "refresh", hook.searchTerm, PageOrFirst(hook),
                      LimitOrInitial(hook))
    /\ UNCHANGED << timers, changes, clock, backend >>

\* What the server answers to a request: the page asked for.
DataOf(f) == [ search |-> f.search, page |-> f.page, limit |-> f.limit ]
PaginationOf(f) ==
    [ page |-> validatePagination(Some(f.page), Some(f.limit)).page,
      limit |-> validatePagination(Some(f.page), Some(f.limit)).limit ]

\* response.ok: setAdvocates, setPagination, and setLoading(false) in the
\* finally block.
ResponseOk ==
    /\ \E i \in InFlight :
          /\ fetches' = [ fetches EXCEPT ![i].outcome = "ok" ]
          /\ hook' = [ hook EXCEPT !.advocates = << DataOf(fetches[i]) >>,
                                   !.pagination = Some(PaginationOf(fetches[i])),
                                   !.loading = FALSE ]
    /\ UNCHANGED << timers, changes, clock, backend >>

\* The fetch rejects or the response is not ok: setError, and
\* setLoading(false) in the finally block.
ResponseFails ==
    /\ \E i \in InFlight :
          /\ fetches' = [ fetches EXCEPT ![i].outcome = "failed" ]
          /\ hook' = [ hook EXCEPT !.error = Some("Failed to fetch advocates"),
                                   !.loading = FALSE ]
    /\ UNCHANGED << timers, changes, clock, backend >>

\* Time passes, unless a timeout is due.  It is counted only while a timeout
\* is pending: nothing else in the hook depends on it.
Tick ==
    /\ clock + TickMs <= MaxClock
    /\ timers # {}
    /\ \A t \in timers : t.due > clock
    /\ clock' = clock + TickMs
    /\ UNCHANGED << hook, timers, fetches, changes, backend >>

NextHook ==
    \/ InitialLoad
    \/ HandleSearchChange
    \/ TimerFires
    \/ HandlePageChange
    \/ HandleLimitChange
    \/ Refresh
    \/ ResponseOk
    \/ ResponseFails
    \/ Tick

SpecHook == Init /\ [][NextHook]_vars

\* ------------------------------------------------------------------------
\* Properties
\* ------------------------------------------------------------------------
Range(seq) == { seq[i] : i \in DOMAIN seq }

InService == pc \in {"page", "count"} \/ (pc = "done" /\ resp.kind \in {"ok", "error"})
Answered == pc = "done" /\ resp.kind = "ok"

\* The trimmed term is non-empty: it has a character that is not a space.
TermGiven(r) == IsPresent(r.search) /\ \E i \in DOMAIN Get(r.search) : Get(r.search)[i] # " "
TagsGiven(r) == IsPresent(r.specialties) /\ Get(r.specialties) # <<>>

\* The strategy table of the specification.
TableStrategy(r) ==
    CASE ~TermGiven(r) /\ ~TagsGiven(r) -> "plain"
      [] TermGiven(r) /\ ~TagsGiven(r)  -> "search"
      [] ~TermGiven(r) /\ TagsGiven(r)  -> "tags"
      [] OTHER                          -> "searchTags"

PageQueriesIssued == { i \in DOMAIN queries : queries[i].kind = "page" }
CountQueriesIssued == { i \in DOMAIN queries : queries[i].kind = "count" }

\* C1: every request the service handles runs exactly one strategy, the one
\* the table gives for (term non-blank, tag list non-empty): one page query
\* is issued, for that strategy, and any count query is for the same one.
C1_ExactlyOneStrategy ==
    InService =>
        /\ Cardinality(PageQueriesIssued) = 1
        /\ \A i \in DOMAIN queries : queries[i].strategy = TableStrategy(req)

C1_Witness ==
    /\ Answered
    /\ TableStrategy(req) = "searchTags"
    /\ Len(queries) = 2
    /\ Len(resp.data) > 0

\* The records of the first n rows of the table that a strategy's page
\* predicate selects.
PageMatches(n) ==
    { i \in 1..n : PageWhere(plan.strategy, table[i], Get(ParsedQuery), plan.tags) }

\* C2: when the data set did not change between the two queries of a call,
\* totalCount is the number of records that satisfy the page query's
\* predicate, whatever the page and the limit.
C2_CountMatchesPagePredicate ==
    (Answered /\ pageSeen = countSeen) =>
        resp.pagination.totalCount = Cardinality(PageMatches(pageSeen))

C2_Witness ==
    /\ Answered
    /\ pageSeen = countSeen
    /\ plan.strategy = "searchTags"
    /\ resp.pagination.totalCount > 0
    /\ \E i \in 1..pageSeen : TsMatch(table[i], Get(ParsedQuery)) /\ i \notin PageMatches(pageSeen)

\* C3: a call whose page query or count query failed ends with one error of
\* the fixed message and neither data nor pagination; a call that returns
\* data returns pagination with it, after both queries.
C3_FailClosed ==
    (pc = "done" /\ resp.kind \in {"ok", "error"}) =>
        IF resp.kind = "error"
        THEN /\ resp.message = "Failed to search advocates"
             /\ DOMAIN resp \cap {"data", "pagination"} = {}
        ELSE /\ {"data", "pagination"} \subseteq DOMAIN resp
             /\ Cardinality(CountQueriesIssued) = 1

C3_Witness ==
    /\ pc = "done"
    /\ resp.kind = "error"
    /\ resp.failed = "count"
    /\ plan.method = "getAdvocatesBySpecialties"
    /\ Len(advocates) > 0

\* C4: data and totalCount of one response are computed from the same state
\* of the data set, also when a record is inserted between the two queries:
\* totalCount is the number of matches in the table the page was read from.
C4_PageAndCountSameState ==
    Answered => resp.pagination.totalCount = Cardinality(PageMatches(pageSeen))

\* min(100, max(1, requestedLimit or 50)), case by case.
ClampedLimit(o) ==
    IF ~IsPresent(o) \/ Get(o) = 0 THEN 50
    ELSE IF Get(o) < 1 THEN 1
    ELSE IF Get(o) > 100 THEN 100
    ELSE Get(o)

\* C5: the effective limit is min(100, max(1, requestedLimit or 50)), lies in
\* [1, 100], is the LIMIT of the page query and is reported as
\* pagination.limit.
C5_EffectiveLimit ==
    InService =>
        /\ paging.limit = ClampedLimit(req.limit)
        /\ paging.limit \in 1..100
        /\ \A i \in PageQueriesIssued : queries[i].limit = paging.limit
        /\ Answered => /\ resp.pagination.limit = paging.limit
                       /\ Len(resp.data) <= paging.limit

C5_Witness ==
    /\ Answered
    /\ req.limit = Some(MAX_LIMIT + 1)
    /\ resp.pagination.limit = 100
    /\ Len(resp.data) > 1

\* C6: the effective page is 1 for an absent page or a page below 1 and the
\* requested page otherwise, and is reported as pagination.page.
C6_EffectivePage ==
    InService =>
        /\ paging.page = IF ~IsPresent(req.page) \/ Get(req.page) < 1 THEN 1
                         ELSE Get(req.page)
        /\ Answered => resp.pagination.page = paging.page

C6_Witness ==
    /\ Answered
    /\ req.page = Some(-1)
    /\ resp.pagination.page = 1
    /\ Len(resp.data) > 0

\* The request names a sort field the service does not know.
UnrecognizedSort(r) ==
    IsPresent(r.sortBy) /\ Get(r.sortBy) \notin {"relevance", "name", "experience", "city"}

BelowOne(o) == IsPresent(o) /\ Get(o) < 1
AboveMax(o) == IsPresent(o) /\ Get(o) > 100

C8_PageBeyondLast ==
    (/\ Answered
     /\ resp.pagination.totalCount > 0
     /\ IsPresent(req.page)
     /\ Get(req.page) > resp.pagination.totalPages) =>
        /\ resp.data = <<>>
        /\ resp.pagination.totalCount = Cardinality(PageMatches(countSeen))
        /\ Cardinality(PageMatches(countSeen)) > 0

C8_Witness ==
    /\ Answered
    /\ req.page = Some(3)
    /\ resp.pagination.totalPages = 2
    /\ resp.pagination.totalCount = 3
    /\ resp.data = <<>>

IdsOf(data) == [i \in DOMAIN data |-> data[i].id]
Ascending(ids) == \A i, j \in DOMAIN ids : i < j => ids[i] < ids[j]
NoSecondarySort == ~IsPresent(req.sortBy) \/ req.sortBy = Some("relevance")

\* The slice [offset + 1, offset + limit] of a sequence of ids.
PageOfIds(ids) ==
    LET n == Max2(0, Min2(paging.limit, Len(ids) - paging.offset))
    IN  [i \in 1..n |-> ids[paging.offset + i]]

RECURSIVE OverlappingIds(_, _)
OverlappingIds(n, tags) ==
    IF n = 0 THEN <<>>
    ELSE LET own == IF IsPresent(table[n].payload) THEN Range(Get(table[n].payload)) ELSE {}
         IN  IF own \cap Range(tags) # {}
             THEN Append(OverlappingIds(n - 1, tags), table[n].id)
             ELSE OverlappingIds(n - 1, tags)

\* C10, as claimed: with tags and no term the matching set is the records
\* sharing at least one tag with the request, and the matches are returned
\* in ascending id order.
C10_TagMatchesAlwaysById ==
    (Answered /\ TableStrategy(req) = "tags") =>
        /\ IdsOf(resp.data) = PageOfIds(OverlappingIds(pageSeen, Get(req.specialties)))
        /\ resp.pagination.totalCount = Len(OverlappingIds(countSeen, Get(req.specialties)))

\* C10, amended: with tags and no term the matching set is the records
\* sharing at least one tag with the request: the data is the requested page
\* of those records, in ascending id order when no secondary sort is
\* requested, and totalCount counts them.
C10_TagFilterIsUnion ==
    (Answered /\ TableStrategy(req) = "tags") =>
        /\ Range(IdsOf(resp.data)) = Range(PageOfIds(OverlappingIds(pageSeen, Get(req.specialties))))
        /\ Len(resp.data) = Len(PageOfIds(OverlappingIds(pageSeen, Get(req.specialties))))
        /\ NoSecondarySort =>
              IdsOf(resp.data) = PageOfIds(OverlappingIds(pageSeen, Get(req.specialties)))
        /\ resp.pagination.totalCount = Len(OverlappingIds(countSeen, Get(req.specialties)))

C10_Witness ==
    /\ Answered
    /\ TableStrategy(req) = "tags"
    /\ req.specialties = Some(<<"J", "S">>)
    /\ \E i \in DOMAIN resp.data : resp.data[i].specialties = <<"J">>
    /\ \E i \in DOMAIN resp.data : resp.data[i].specialties = <<"O", "S">>
    /\ resp.pagination.totalCount = 3

\* C11: two calls with identical arguments against an unchanged data set
\* return identical data, in the same order, and identical pagination,
\* whatever the strategy.
SameDataSet ==
    /\ previous.pageSeen = previous.countSeen
    /\ previous.countSeen = pageSeen
    /\ pageSeen = countSeen

C11_RepeatedCallSameAnswer ==
    (Answered /\ previous # NoPrevious /\ previous.req = req /\ SameDataSet)
        => /\ resp.data = previous.data
           /\ resp.pagination = previous.pagination
SecondarySort == IsPresent(req.sortBy) /\ Get(req.sortBy) \in {"name", "experience", "city"}
AsRelevance(r) == [r EXCEPT !.sortBy = Some("relevance")]

\* C12: with sortBy name, experience or city the data is a permutation of
\* the rows of the page (each row once, nothing else), the queries are those
\* of the same request with sortBy = relevance, and page, limit and
\* totalCount are what the validator and the count query gave.
C12_SortIsPageLocal ==
    (Answered /\ SecondarySort) =>
        /\ Len(resp.data) = Len(advocates)
        /\ \A i \in DOMAIN advocates :
              Cardinality({ j \in DOMAIN resp.data :
                              resp.data[j] = transformAdvocate(advocates[i]) }) = 1
        /\ plan = PlanOf(AsRelevance(req))
        /\ queries[1] = PageQuery(PlanOf(AsRelevance(req)).strategy,
                                  validatePagination(req.page, req.limit))
        /\ resp.pagination.page = paging.page
        /\ resp.pagination.limit = paging.limit
        /\ resp.pagination.totalCount = Cardinality(PageMatches(countSeen))

C12_Witness ==
    /\ Answered
    /\ req.sortBy = Some("city")
    /\ IdsOf(advocates) = <<1, 2>>
    /\ IdsOf(resp.data) = <<2, 1>>
    /\ resp.pagination.totalCount = 3
\* The words of a string: its maximal runs of characters other than space.
RECURSIVE WordsOf(_)
WordsOf(s) ==
    IF s = <<>> THEN <<>>
    ELSE IF Head(s) = " " THEN WordsOf(Tail(s))
    ELSE LET stops == { i \in DOMAIN s : s[i] = " " } \cup { Len(s) + 1 }
             n == CHOOSE i \in stops : \A k \in stops : i <= k
         IN  << SubSeq(s, 1, n - 1) >> \o WordsOf(SubSeq(s, n, Len(s)))

\* 'w1 & ... & w(n-1) & wn:*'
RECURSIVE PrefixExpression(_)
PrefixExpression(words) ==
    IF Len(words) = 1 THEN words[1] \o << ":", "*" >>
    ELSE words[1] \o << " ", "&", " " >> \o PrefixExpression(Tail(words))

\* C13: for a non-blank search string the expression sent to the database
\* is 'w1 & ... & wn:*' over the whitespace-separated words of the string,
\* every term a non-empty word.
C13_ExpressionOfWords ==
    (InService /\ TermGiven(req)) =>
        plan.searchQuery = PrefixExpression(WordsOf(Get(req.search)))
\* C14: totalPages is the smallest integer p with p * limit >= totalCount
\* (0 for no record, 3 for 125 records in pages of 50), and page, limit and
\* totalCount are passed through unchanged.
C14_TotalPagesIsCeiling ==
    calc # NoCalc =>
        LET p == calc.pagination.totalPages IN
        /\ p \in Nat
        /\ p * calc.limit >= calc.totalCount
        /\ \A q \in 0..(p - 1) : q * calc.limit < calc.totalCount
        /\ (calc.totalCount = 0) => (p = 0)
        /\ (calc.totalCount = 125 /\ calc.limit = 50) => (p = 3)
        /\ calc.pagination.page = calc.page
        /\ calc.pagination.limit = calc.limit
        /\ calc.pagination.totalCount = calc.totalCount
        /\ DOMAIN calc.pagination = {"page", "limit", "totalCount", "totalPages"}

C14_Witness ==
    /\ calc # NoCalc
    /\ calc.totalCount = 125
    /\ calc.limit = 50
    /\ calc.pagination.totalPages = 3
\* A row matches a list of words: every word but the last is one of its
\* lexemes, the last is the beginning of one.
MatchesWords(r, words) ==
    \A k \in DOMAIN words :
        \E l \in SearchVector(r) :
            IF k = Len(words) THEN IsPrefix(words[k], l.word) ELSE l.word = words[k]

\* The relevance score of the i-th returned record.
ScoreOf(i) == ts_rank(table[resp.data[i].id], Get(ParsedQuery))

\* C15: with a non-blank term, no tags and relevance ordering, every
\* returned record matches the words of the term (the last one as a prefix)
\* and the scores of the returned records never increase along the data.
C15_RankedSearch ==
    (Answered /\ TermGiven(req) /\ ~TagsGiven(req) /\ NoSecondarySort) =>
        /\ \A i \in DOMAIN resp.data :
              MatchesWords(table[resp.data[i].id], WordsOf(Get(req.search)))
        /\ \A i, j \in DOMAIN resp.data : i < j => ScoreOf(i) >= ScoreOf(j)

C15_Witness ==
    /\ Answered
    /\ req.search = Some(<<"j", " ">>)
    /\ ~TagsGiven(req)
    /\ NoSecondarySort
    /\ Len(resp.data) = 3
    /\ ScoreOf(1) > ScoreOf(2)
    /\ pageSeen = 3
\* The rows among the first n of the table that have one of the tags.
HavingATag(n, tags) ==
    { i \in 1..n : IsPresent(table[i].payload) /\
                   Range(Get(table[i].payload)) \cap Range(tags) # {} }

\* The rows among the first n of the table that match the words of the term.
MatchingTheTerm(n) ==
    { i \in 1..n : MatchesWords(table[i], WordsOf(Get(req.search))) }

\* The search with tags finds the records that match the term and have one
\* of the tags, returns records of that set only (all of them when the page
\* is large enough) and counts that set.
IntersectionFound ==
    /\ PageMatches(pageSeen) =
          MatchingTheTerm(pageSeen) \cap HavingATag(pageSeen, Get(req.specialties))
    /\ Range(IdsOf(resp.data)) \subseteq PageMatches(pageSeen)
    /\ (paging.page = 1 /\ paging.limit >= pageSeen)
          => Range(IdsOf(resp.data)) = PageMatches(pageSeen)
    /\ resp.pagination.totalCount =
          Cardinality(MatchingTheTerm(countSeen)
                          \cap HavingATag(countSeen, Get(req.specialties)))

ByDescendingScore == \A i, j \in DOMAIN resp.data : i < j => ScoreOf(i) >= ScoreOf(j)

\* C16, as claimed: with a non-blank term and a non-empty tag list the
\* matching set is the intersection, totalCount counts it and the data is
\* in descending order of score, whatever sortBy is.
C16_IntersectionAlwaysByScore ==
    (Answered /\ TermGiven(req) /\ TagsGiven(req)) =>
        (IntersectionFound /\ ByDescendingScore)

\* C16: with a non-blank term and a non-empty tag list the matching set is
\* the intersection and totalCount counts it; the data is in descending
\* order of score when no secondary sort was asked for.
C16_IntersectionByScore ==
    (Answered /\ TermGiven(req) /\ TagsGiven(req)) =>
        (IntersectionFound /\ (NoSecondarySort => ByDescendingScore))

C16_Witness ==
    /\ Answered
    /\ req.search = Some(<<"j", " ">>)
    /\ req.specialties = Some(<<"J">>)
    /\ NoSecondarySort
    /\ pageSeen = 3
    /\ MatchingTheTerm(3) = {1, 2, 3}
    /\ Range(IdsOf(resp.data)) = {1, 3}
    /\ resp.pagination.totalCount = 2
\* Dictionary order on strings: a comes strictly before b.
StringBefore(a, b) ==
    \E k \in 1..(Len(b)) :
        /\ \A i \in 1..(k - 1) : i <= Len(a) /\ a[i] = b[i]
        /\ k - 1 <= Len(a)
        /\ (k > Len(a) \/ CharOrd(a[k]) < CharOrd(b[k]))

\* Record a comes strictly before record b by the requested sort field.
KeyBefore(a, b) ==
    CASE req.sortBy = Some("name")       -> StringBefore(a.lastName, b.lastName)
      [] req.sortBy = Some("experience") -> a.yearsOfExperience < b.yearsOfExperience
      [] req.sortBy = Some("city")       -> StringBefore(a.city, b.city)

\* C17: with sortBy name, experience or city the data is sorted by
\* lastName, yearsOfExperience or city: never decreasing for sortOrder asc,
\* never increasing for sortOrder desc.
C17_SortedByField ==
    (Answered /\ SecondarySort) =>
        /\ req.sortOrder = Some("asc") =>
              \A i, j \in DOMAIN resp.data : i < j => ~KeyBefore(resp.data[j], resp.data[i])
        /\ req.sortOrder = Some("desc") =>
              \A i, j \in DOMAIN resp.data : i < j => ~KeyBefore(resp.data[i], resp.data[j])

C17_Witness ==
    /\ Answered
    /\ req.sortBy = Some("name")
    /\ req.sortOrder = Some("desc")
    /\ IdsOf(advocates) = <<1, 2, 3>>
    /\ IdsOf(resp.data) = <<1, 3, 2>>
\* C18: with sortBy absent or 'relevance' the data is the transformed rows
\* of the page query, one for one and in the order the query returned them.
C18_OrderUntouched ==
    (Answered /\ NoSecondarySort) =>
        /\ Len(resp.data) = Len(advocates)
        /\ \A i \in DOMAIN advocates : resp.data[i] = transformAdvocate(advocates[i])

C18_Witness ==
    /\ Answered
    /\ ~IsPresent(req.sortBy)
    /\ IdsOf(advocates) = <<2, 1, 3>>
    /\ IdsOf(resp.data) = <<2, 1, 3>>
RequiredFields ==
    { "id", "firstName", "lastName", "city", "degree", "yearsOfExperience", "phoneNumber" }

IsCanonical(record) ==
    /\ RequiredFields \subseteq DOMAIN record
    /\ "specialties" \in DOMAIN record
    /\ DOMAIN record.specialties = 1..Len(record.specialties)

\* C19: every record the service returns, from the raw rows of the search
\* queries or from the mapped row of getAdvocateById, has every required
\* field defined and a sequence as specialties.
C19_TransformerTotal ==
    pc = "done" =>
        /\ resp.kind = "ok" => \A i \in DOMAIN resp.data : IsCanonical(resp.data[i])
        /\ resp.kind = "advocate" => IsCanonical(resp.advocate)
\* The answers a call of this entry point and key can give when it is the
\* only call: one for each order the page query may return its rows in.
AloneAnswers(entry, key) ==
    LET r == IF entry = "controller" THEN DtoDefaults(key) ELSE key
        alone == Started(key, r, entry)
    IN  { AnswerOf(alone, LimitOffset(ordered, CallPaging(alone).limit,
                                      CallPaging(alone).offset)) :
            ordered \in QueryOrders(CallPlan(alone).strategy, table,
                                    Get(CallParsedQuery(alone)), CallPlan(alone).tags) }

\* C20: whatever the other callers do meanwhile, a call that answers gives
\* an answer it can give when it runs alone on the same table.
C20_CallsIndependent ==
    \A c \in Callers :
        (calls[c].pc = "done" /\ calls[c].resp.kind = "ok")
            => calls[c].resp \in AloneAnswers(calls[c].via, calls[c].key)

C20_Witness ==
    /\ calls[1].pc = "done"
    /\ calls[2].pc = "done"
    /\ calls[1].resp.kind = "ok"
    /\ calls[2].resp.kind = "ok"
    /\ calls[1].key # calls[2].key
    /\ calls[1].resp.data # <<>>
    /\ calls[2].resp.data # <<>>
    /\ calls[1].resp.data # calls[2].resp.data
\* The effective page of a request: the requested one when it is at least 1.
EffectivePage(o) == IF ~IsPresent(o) \/ Get(o) < 1 THEN 1 ELSE Get(o)

\* C21: the OFFSET of the page query is (effective page - 1) * effective
\* limit: never negative, a multiple of the limit, 0 for page 1.
C21_OffsetOfPage ==
    InService =>
        \A i \in PageQueriesIssued :
            /\ queries[i].offset =
                  (EffectivePage(req.page) - 1) * ClampedLimit(req.limit)
            /\ queries[i].offset >= 0
            /\ queries[i].offset % queries[i].limit = 0
            /\ EffectivePage(req.page) = 1 => queries[i].offset = 0

C21_Witness ==
    /\ Answered
    /\ req.page = Some(3)
    /\ req.limit = Some(2)
    /\ queries[1].offset = 4
    /\ queries[1].limit = 2
\* C22: when the search string is absent, empty or only spaces, no
\* expression is built and no query of the invocation matches text; an
\* expression is built only from a term that has a character other than
\* space.
C22_BlankTermNeverBuilt ==
    InService =>
        /\ ~TermGiven(req) =>
              /\ plan.searchQuery = <<>>
              /\ \A i \in DOMAIN queries : queries[i].strategy \in {"plain", "tags"}
        /\ plan.searchQuery # <<>> => TermGiven(req)

C22_Witness ==
    /\ Answered
    /\ req.search = Some(<<" ">>)
    /\ TagsGiven(req)
    /\ plan.method = "getAdvocatesBySpecialties"
    /\ plan.searchQuery = <<>>
    /\ Len(resp.data) > 0
\* C23: a request that comes in over HTTP with a sortBy that is not a sort
\* field is rejected, and no query is issued for it.
C23_UnknownSortRejected ==
    (pc # "idle" /\ via \in {"route", "controller"} /\ UnrecognizedSort(req)) =>
        /\ pc = "done"
        /\ resp.kind = "rejected"
        /\ queries = <<>>
\* The retrieval calls of an invocation: a page query first, a count query
\* after it at most; a call that failed made one query when the page query
\* threw and two when the count query threw.
AtMostOneOfEach ==
    InService =>
        /\ Cardinality(PageQueriesIssued) <= 1
        /\ Cardinality(CountQueriesIssued) <= 1
        /\ Len(queries) <= 2
        /\ (pc = "done" /\ resp.kind = "error" /\ resp.failed = "page")
              => (Len(queries) = 1 /\ CountQueriesIssued = {})
        /\ (pc = "done" /\ resp.kind = "error" /\ resp.failed = "count")
              => Len(queries) = 2

\* The step in which a query fails ends the invocation and issues nothing.
FailureEndsInvocation ==
    (pc \in {"page", "count"} /\ resp'.kind = "error")
        => (pc' = "done" /\ queries' = queries)

\* No query is issued once the invocation has its outcome.
NothingAfterOutcome == (pc = "done") => (queries' = queries \/ queries' = <<>>)

\* C24: an invocation issues at most one page query and at most one count
\* query; when the page query fails no count query follows, and a failure
\* of either query ends the invocation with no further retrieval call.
C24_NoRetry ==
    /\ []AtMostOneOfEach
    /\ [][FailureEndsInvocation /\ NothingAfterOutcome]_vars

C24_Witness ==
    /\ pc = "done"
    /\ resp.kind = "error"
    /\ resp.failed = "page"
    /\ Len(queries) = 1
    /\ Len(table) > 0
    /\ plan.strategy = "search"
\* The rows, of those the query saw, having one of the tags among their
\* specialties.
HavingTagAsData(specialties) ==
    { i \in 1..inj.seen :
        /\ IsPresent(table[i].payload)
        /\ \E k \in DOMAIN specialties : \E j \in DOMAIN Get(table[i].payload) :
              TagText(Get(table[i].payload)[j]) = specialties[k] }

\* C25: a tag is only ever a value of the any-of test: whatever characters
\* the tags hold, the statement parses, its filter is the any-of test over
\* exactly the given tags with no further condition, and the rows selected
\* are the rows having one of the tags.
C25_TagsAreData ==
    inj # NoInjection =>
        /\ IsPresent(inj.filter)
        /\ Get(inj.filter).values = inj.specialties
        /\ ~Get(inj.filter).orTrue
        /\ inj.outcome = "rows"
        /\ inj.ids = HavingTagAsData(inj.specialties)
\* The rows, of those in the table when the call was made, that the call's
\* request matches.
MatchingWhenCalled(call) ==
    { i \in 1..call.seen :
        PageWhere(CallPlan(call).strategy, table[i], Get(CallParsedQuery(call)),
                  CallPlan(call).tags) }

\* C26: an answer reflects the data set as it was when the call was made:
\* every record that was in the table then and matches the request is counted
\* in totalCount and, the page being large enough, is in the data; an answer
\* computed for an earlier identical request, before a record was added, is
\* never returned.
C26_FreshResult ==
    \A c \in Callers :
        (calls[c].pc = "done" /\ calls[c].resp.kind = "ok") =>
            /\ calls[c].resp.pagination.totalCount >= Cardinality(MatchingWhenCalled(calls[c]))
            /\ MatchingWhenCalled(calls[c]) \subseteq Range(IdsOf(calls[c].resp.data))
\* The rows the caller's query matches, of the table it read page by page.
WalkMatching ==
    LET p == PlanOf(previous.req)
        tsq == IF UsesTextMatch(p.strategy) THEN to_tsquery(p.searchQuery) ELSE Some(<<>>)
    IN  { i \in 1..previous.seen : PageWhere(p.strategy, table[i], Get(tsq), p.tags) }

\* C28: the pages partition the matching set: once a caller has read pages
\* 1..totalPages of a query with a fixed limit against an unchanged table,
\* no id is on two pages or twice on one, no page holds more than limit
\* ids, and the ids of all pages are exactly the matching rows.
C28_PagesPartition ==
    (previous # NoPrevious /\ previous.kind = "pages"
       /\ Len(previous.pages) >= previous.totalPages) =>
        /\ \A m, n \in DOMAIN previous.pages :
              \A i \in DOMAIN previous.pages[m], j \in DOMAIN previous.pages[n] :
                 previous.pages[m][i] = previous.pages[n][j] => (m = n /\ i = j)
        /\ \A m \in DOMAIN previous.pages : Len(previous.pages[m]) <= previous.limit
        /\ UNION { Range(previous.pages[m]) : m \in DOMAIN previous.pages } = WalkMatching
SearchParam(term) == IF term = <<>> THEN Absent ELSE Some(term)

\* A change followed by another within less than 300 ms.
Superseded(k) == k < Len(changes) /\ changes[k + 1].at - changes[k].at < DebounceMs

\* C27: the search is debounced by 300 ms.  At most one timeout is pending;
\* a change followed by another within less than 300 ms issues no fetch;
\* any other change issues at most one, 300 ms after it, for its term and
\* page 1; and once more than 300 ms have passed since the last change its
\* fetch has been issued.
C27_Debounced ==
    /\ Cardinality(timers) <= 1
    /\ \A k \in DOMAIN changes :
          /\ Superseded(k) => changes[k].fired = <<>>
          /\ Len(changes[k].fired) <= 1
          /\ \A n \in DOMAIN changes[k].fired :
                /\ changes[k].fired[n].at = changes[k].at + DebounceMs
                /\ fetches[changes[k].fired[n].fetch].search = SearchParam(changes[k].term)
                /\ fetches[changes[k].fired[n].fetch].page = 1
    /\ (changes # <<>> /\ clock > changes[Len(changes)].at + DebounceMs)
          => Len(changes[Len(changes)].fired) = 1

\* A burst of two changes, 200 ms apart, has ended in its one fetch.
C27_Witness ==
    /\ Len(changes) = 2
    /\ changes[2].at - changes[1].at = 2 * TickMs
    /\ changes[1].term # changes[2].term
    /\ changes[1].fired = <<>>
    /\ Len(changes[2].fired) = 1
    /\ fetches[changes[2].fired[1].fetch].search = Some(changes[2].term)
    /\ changes[2].fired[1].at = changes[2].at + DebounceMs
    /\ timers = {}

\* C29: when no fetch is in flight and the request issued last was
\* answered, the advocates and the pagination displayed are those of that
\* request.
C29_LatestRequestDisplayed ==
    (fetches # <<>> /\ InFlight = {} /\ fetches[Len(fetches)].outcome = "ok") =>
        /\ hook.advocates = << DataOf(fetches[Len(fetches)]) >>
        /\ hook.pagination = Some(PaginationOf(fetches[Len(fetches)]))

\* C30: loading is true exactly while a fetch is in flight.
C30_LoadingWhileInFlight == hook.loading <=> (InFlight # {})
====
